---- MODULE Spec2Model ----
(***************************************************************************)
(* Model of noria-benchmarks/securecrp/benchmark.rs: the single-threaded   *)
(* `main` of the secure-CRP benchmark harness.  The program is one         *)
(* sequential routine; `pc` is its position, and every step that calls the *)
(* target platform chooses nondeterministically whether the call succeeds. *)
(*                                                                         *)
(* Four specifications share the actions:                                  *)
(*   Spec      - ingestion of source records and table population, from    *)
(*               the start of main, over small payloads;                   *)
(*   SpecRun   - the whole run after ingestion (setup, population, login,  *)
(*               view handles, cold and warm reads, report), starting from *)
(*               post-ingestion states with larger author/review counts;   *)
(*   SpecLogin - the login loop alone, from the states at its entry, with  *)
(*               enough reviews for ten and more logged-in users;          *)
(*   SpecMem   - the two memory snapshots alone, from the states at their  *)
(*               entry, over the statistics reports of small graphs.       *)
(***************************************************************************)
EXTENDS Integers, Sequences, FiniteSets, TLC

VARIABLES
    pc,                \* position in main
    failed,            \* history: labels of the calls that failed so far
    loggedf,           \* --logged-in command line value, a fraction num/den
    source,            \* history: the paper records consumed so far, in order
    author_set,        \* HashMap author identifier -> dense id (line 201)
    authors,           \* Vec of author identifiers, index = dense id (line 202)
    papers,            \* Vec<Paper> (line 203)
    reviews,           \* Vec<Review> (line 204)
    nusers,            \* line 295
    nreviewers,        \* line 302
    nlogged,           \* line 326 (shadows line 296)
    user_profile,      \* rows loaded into UserProfile
    paper,             \* rows loaded into Paper
    version,           \* rows loaded into PaperVersion
    coauthor,          \* rows loaded into PaperCoauthor
    review_assignment, \* rows loaded into ReviewAssignment
    review,            \* rows loaded into Review
    snapshots,         \* labels of the memory snapshots written so far
    graph_stats,       \* the node statistics the controller reports (g.statistics())
    wtr,               \* records written to the csv writer (line 318)
    universes,         \* context ids of the universes created, in order
    printi,            \* line 592
    login_samples,     \* indices whose login sample was printed
    paper_list,        \* HashMap author identifier -> view handle (line 625)
    gci,               \* loop index of the GroupContext debug lookups
    requests,          \* Vec<(Operation, uid)> replay list (line 657)
    lookups,           \* history: lookups issued on paper_list handles
    cold_stats,        \* HashMap Operation -> number of recorded samples
    warm_stats         \* HashMap Operation -> number of recorded samples

dataVars  == <<author_set, authors, papers, reviews>>
countVars == <<nusers, nreviewers, nlogged>>
tableVars == <<user_profile, paper, version, coauthor, review_assignment, review>>
loginVars == <<universes, printi, login_samples>>
benchVars == <<paper_list, gci, requests, lookups, cold_stats, warm_stats>>
memVars   == <<graph_stats, wtr>>
vars == <<pc, failed, loggedf, source, dataVars, countVars, tableVars, snapshots, memVars,
          loginVars, benchVars>>

(***************************************************************************)
(* Bounds of the model.                                                    *)
(***************************************************************************)
MaxAuthorIds == 3          \* distinct author identifiers in the source (Spec)
MaxPapers == 2             \* papers in the source payload (Spec)
MaxAuthorsPerPaper == 2    \* length of one paper's authorids array (Spec)
MaxReviewsPerPaper == 2    \* reviews fetched for one paper (Spec)
MaxUsers == 4              \* authors after ingestion (SpecRun)
MaxReviews == 45           \* reviews after ingestion (SpecRun)
MaxLoginUsers == 21        \* authors after ingestion (SpecLogin)
MaxLoginReviewers == 105   \* reviewer groups after ingestion (SpecLogin)
MaxDomains == 2            \* domains of a statistics report (SpecMem)
MaxNodes == 3              \* nodes of a statistics report (SpecMem)

(***************************************************************************)
(* Program constants.                                                      *)
(***************************************************************************)
PAPERS_PER_REVIEWER == 3

\* loggedfs = vec![0.2] (line 317).  0.2f32 * n, rounded to f32 and truncated,
\* equals floor(n / 5) for every n < 2^24, so the fraction 1/5 is exact here.
Lfrac == [num |-> 1, den |-> 5]

\* values of the --logged-in flag tried by the model (default "1.0", line 102)
LoggedFs == {[num |-> 0, den |-> 1], [num |-> 1, den |-> 2], [num |-> 1, den |-> 1]}

AuthorIds == 1..MaxAuthorIds

\* (rating, confidence) pairs a review's text fields may parse to
Scores == {[rating |-> 6, confidence |-> 4], [rating |-> 7, confidence |-> 3]}

ReadPaperList == "ReadPaperList"

(***************************************************************************)
(* Helpers.                                                                *)
(***************************************************************************)
Min(a, b) == IF a < b THEN a ELSE b

Range(s) == {s[i] : i \in 1..Len(s)}

SeqsUpTo(S, n) == UNION {[1..k -> S] : k \in 0..n}

CountOf(s, x) == Cardinality({i \in 1..Len(s) : s[i] = x})

SameBag(s, t) ==
    /\ Len(s) = Len(t)
    /\ \A x \in Range(s) \cup Range(t) : CountOf(s, x) = CountOf(t, x)

\* format!("{}", n): the decimal string of n, kept apart from the integer n
Fmt(n) == <<"str", n>>

\* HashMap::entry(k).or_insert_with(Histogram::new).saturating_record(_)
RecordSample(stats, op) ==
    IF op \in DOMAIN stats THEN [stats EXCEPT ![op] = @ + 1] ELSE stats @@ (op :> 1)

SampleCount(stats, op) == IF op \in DOMAIN stats THEN stats[op] ELSE 0

(***************************************************************************)
(* Source normalizer: lines 201-292.                                       *)
(***************************************************************************)
\* variant: the entry is inserted without looking the identifier up
InternAuthorAlwaysNew(st, a) ==
    [set  |-> (a :> Len(st.list)) @@ st.set,
     list |-> Append(st.list, a),
     ids  |-> Append(st.ids, Len(st.list))]

\* author_set.entry(author).or_insert_with(|| { authors.push(author); authors.len() - 1 })
\* applied to one identifier; st = [set, list, ids] threads the fold state.
InternAuthor(st, a) ==
    IF a \in DOMAIN st.set
    THEN [st EXCEPT !.ids = Append(@, st.set[a])]
    ELSE [set  |-> st.set @@ (a :> Len(st.list)),
          list |-> Append(st.list, a),
          ids  |-> Append(st.ids, Len(st.list))]

\* content["authorids"].iter().map(..).collect() over one paper's identifiers
RECURSIVE InternAll(_, _)
InternAll(st, ids) ==
    IF ids = <<>> THEN st
    ELSE InternAll(InternAuthor(st, Head(ids)), Tail(ids))

\* one iteration of `for paper in all`: intern the authors, push the paper,
\* fetch and push its reviews
IngestPaper ==
    /\ pc = "ingest"
    /\ Len(papers) < MaxPapers
    /\ \E ids \in SeqsUpTo(AuthorIds, MaxAuthorsPerPaper),
          revs \in SeqsUpTo(Scores, MaxReviewsPerPaper) :
         LET st  == InternAll([set |-> author_set, list |-> authors, ids |-> <<>>], ids)
             pid == Len(papers) + 1
         IN  /\ author_set' = st.set
             /\ authors' = st.list
             /\ source' = Append(source, [authorids |-> ids, reviews |-> revs])
             /\ papers' = Append(papers, [authors |-> st.ids])
             /\ reviews' = reviews \o
                    [k \in 1..Len(revs) |->
                        [paper |-> pid, rating |-> revs[k].rating,
                         confidence |-> revs[k].confidence]]
    /\ UNCHANGED <<pc, failed, loggedf, countVars, tableVars, snapshots, memVars,
                   loginVars, benchVars>>

\* floor of a non-negative fraction times n
FloorMul(f, n) == (f.num * n) \div f.den

\* lines 321-329: the logged-in count for one entry of loggedfs
NLogged(lfrac, nrev) ==
    LET small == lfrac.num > 0 /\ lfrac.num * 100 < lfrac.den
        lf == IF small THEN [num |-> 1, den |-> nrev] ELSE lfrac
    IN  IF lf.num # 0 /\ lf.num * 100 < lf.den THEN 1
        ELSE IF lf.den = 0 THEN 0
        ELSE FloorMul(lf, nrev)

\* line 302
NReviewers(nreviews) == (nreviews + (PAPERS_PER_REVIEWER - 1)) \div PAPERS_PER_REVIEWER

\* lines 294-330: end of the paper loop; the counts are computed
EndIngest ==
    /\ pc = "ingest"
    /\ author_set' = <<>>
    /\ nusers' = Len(authors)
    /\ nreviewers' = NReviewers(Len(reviews))
    /\ nlogged' = NLogged(Lfrac, NReviewers(Len(reviews)))
    /\ pc' = "install_recipe"
    /\ UNCHANGED <<failed, loggedf, source, authors, papers, reviews, tableVars, snapshots, memVars,
                   loginVars, benchVars>>

(***************************************************************************)
(* Calls into the target platform.  Every `.unwrap()` / `.expect()` on a   *)
(* platform result panics on failure: the run stops at that call.          *)
(***************************************************************************)
\* variant: the error is noted and the run goes on from the same place
NoteAndContinue(label) ==
    /\ pc' = pc
    /\ failed' = failed \cup {label}

\* a panic at the call named `label`
Abort(label) ==
    /\ pc' = "aborted"
    /\ failed' = failed \cup {label}

\* the call succeeded; control moves to `next`
Proceed(next) ==
    /\ pc' = next
    /\ failed' = failed

\* lines 378-382: g.install_recipe(schema).expect(..)
InstallRecipe ==
    /\ pc = "install_recipe"
    /\ \/ Proceed("security")
       \/ Abort("install_recipe")
    /\ UNCHANGED <<loggedf, source, dataVars, countVars, tableVars, snapshots, memVars, loginVars, benchVars>>

\* lines 384-389: g.on_worker(|w| w.set_security_config(policies)).unwrap()
SetSecurityConfig ==
    /\ pc = "security"
    /\ \/ Proceed("queries")
       \/ Abort("set_security_config")
    /\ UNCHANGED <<loggedf, source, dataVars, countVars, tableVars, snapshots, memVars, loginVars, benchVars>>

\* lines 391-395: g.extend_recipe(queries).expect(..)
ExtendRecipe ==
    /\ pc = "queries"
    /\ \/ Proceed("tables")
       \/ Abort("extend_recipe")
    /\ UNCHANGED <<loggedf, source, dataVars, countVars, tableVars, snapshots, memVars, loginVars, benchVars>>

\* lines 438-443: the six g.table(name).unwrap() calls
TableHandles ==
    /\ pc = "tables"
    /\ \/ Proceed("users")
       \/ Abort("table")
    /\ UNCHANGED <<loggedf, source, dataVars, countVars, tableVars, snapshots, memVars, loginVars, benchVars>>

(***************************************************************************)
(* Workload synthesizer: lines 445-568.                                    *)
(***************************************************************************)
\* variant: the reviewer bound is inclusive
RoleInclusive(i, nrev) ==
    IF i = 0 THEN "chair"
    ELSE IF i <= nrev THEN "pc"
    ELSE "normal"

\* lines 453-459: role of the author at 0-based index i
Role(i, nrev) ==
    IF i = 0 THEN "chair"
    ELSE IF i < nrev THEN "pc"
    ELSE "normal"

\* lines 446-461: one row per author, in author order
UserProfileRows(auths, nrev) ==
    [k \in 1..Len(auths) |->
        [id |-> Fmt((k - 1) + 1), email |-> auths[k], role |-> Role(k - 1, nrev)]]

\* lines 445-462
PopulateUserProfile ==
    /\ pc = "users"
    /\ \/ /\ user_profile' = UserProfileRows(authors, nreviewers)
          /\ Proceed("papers")
       \/ /\ Abort("user_profile")
          /\ UNCHANGED user_profile
    /\ UNCHANGED <<loggedf, source, dataVars, countVars, paper, version, coauthor,
                   review_assignment, review, snapshots, memVars, loginVars, benchVars>>

\* lines 466-472: p.authors[0] is an index panic for a paper without authors
PaperRows(ps) ==
    [k \in 1..Len(ps) |-> [id |-> k, author |-> Fmt(ps[k].authors[1] + 1)]]

\* lines 465-473
PopulatePaper ==
    /\ pc = "papers"
    /\ \/ /\ \A k \in 1..Len(papers) : papers[k].authors # <<>>
          /\ paper' = PaperRows(papers)
          /\ Proceed("versions")
       \/ /\ \E k \in 1..Len(papers) : papers[k].authors = <<>>
          /\ Abort("panic: p.authors[0]")
          /\ UNCHANGED paper
       \/ /\ \A k \in 1..Len(papers) : papers[k].authors # <<>>
          /\ Abort("paper")
          /\ UNCHANGED paper
    /\ UNCHANGED <<loggedf, source, dataVars, countVars, user_profile, version, coauthor,
                   review_assignment, review, snapshots, memVars, loginVars, benchVars>>

\* lines 481-489 (titles and fixed text columns are not modelled)
VersionRows(ps) == [k \in 1..Len(ps) |-> [paper |-> k]]

\* lines 480-490
PopulateVersion ==
    /\ pc = "versions"
    /\ \/ /\ version' = VersionRows(papers)
          /\ Proceed("coauthors")
       \/ /\ Abort("version")
          /\ UNCHANGED version
    /\ UNCHANGED <<loggedf, source, dataVars, countVars, user_profile, paper, coauthor,
                   review_assignment, review, snapshots, memVars, loginVars, benchVars>>

\* lines 500-506: flat_map over the papers of one row per listed author
RECURSIVE CoauthorRowsFrom(_, _)
CoauthorRowsFrom(ps, k) ==
    IF k > Len(ps) THEN <<>>
    ELSE [j \in 1..Len(ps[k].authors) |->
             [paper |-> k, author |-> Fmt(ps[k].authors[j] + 1)]]
         \o CoauthorRowsFrom(ps, k + 1)

CoauthorRows(ps) == CoauthorRowsFrom(ps, 1)

\* lines 499-507
PopulateCoauthor ==
    /\ pc = "coauthors"
    /\ \/ /\ coauthor' = CoauthorRows(papers)
          /\ Proceed("shuffle")
       \/ /\ Abort("coauthor")
          /\ UNCHANGED coauthor
    /\ UNCHANGED <<loggedf, source, dataVars, countVars, user_profile, paper, version,
                   review_assignment, review, snapshots, memVars, loginVars, benchVars>>

\* reviews.shuffle(&mut rng): every rearrangement of the list
Shuffles(s) == {t \in [1..Len(s) -> Range(s)] : SameBag(s, t)}

\* line 510
ShuffleReviews ==
    /\ pc = "shuffle"
    /\ \E t \in Shuffles(reviews) : reviews' = t
    /\ Proceed("assignments")
    /\ UNCHANGED <<loggedf, source, author_set, authors, papers, countVars, tableVars,
                   snapshots, memVars, loginVars, benchVars>>

\* variant: chunks_exact, which leaves out a shorter last chunk
RECURSIVE ChunksExact(_, _)
ChunksExact(s, k) ==
    IF Len(s) < k THEN <<>>
    ELSE <<SubSeq(s, 1, k)>> \o ChunksExact(SubSeq(s, k + 1, Len(s)), k)

\* slice.chunks(k): consecutive chunks of k elements, the last one shorter
RECURSIVE Chunks(_, _)
Chunks(s, k) ==
    IF s = <<>> THEN <<>>
    ELSE <<SubSeq(s, 1, Min(k, Len(s)))>> \o Chunks(SubSeq(s, k + 1, Len(s)), k)

\* lines 528-537: .chunks(..).enumerate().flat_map(|(i, rs)| rows of chunk i)
RECURSIVE AssignmentRowsFrom(_, _)
AssignmentRowsFrom(cs, k) ==
    IF k > Len(cs) THEN <<>>
    ELSE [j \in 1..Len(cs[k]) |->
             [paper |-> cs[k][j].paper, reviewer |-> Fmt((k - 1) + 1),
              score |-> <<cs[k][j].rating, cs[k][j].confidence>>]]
         \o AssignmentRowsFrom(cs, k + 1)

AssignmentRows(rs) == AssignmentRowsFrom(Chunks(rs, PAPERS_PER_REVIEWER), 1)

\* lines 526-539
PopulateReviewAssignment ==
    /\ pc = "assignments"
    /\ \/ /\ review_assignment' = AssignmentRows(reviews)
          /\ Proceed("reviews")
       \/ /\ Abort("review_assignment")
          /\ UNCHANGED review_assignment
    /\ UNCHANGED <<loggedf, source, dataVars, countVars, user_profile, paper, version,
                   coauthor, review, snapshots, memVars, loginVars, benchVars>>

\* lines 549-565
RECURSIVE ReviewRowsFrom(_, _)
ReviewRowsFrom(cs, k) ==
    IF k > Len(cs) THEN <<>>
    ELSE [j \in 1..Len(cs[k]) |->
             [paper |-> cs[k][j].paper, reviewer |-> Fmt((k - 1) + 1),
              rating |-> cs[k][j].rating, confidence |-> cs[k][j].confidence]]
         \o ReviewRowsFrom(cs, k + 1)

\* variant: the list is reordered between the two tables
ReviewRowsReordered(rs) ==
    ReviewRowsFrom(Chunks([k \in 1..Len(rs) |-> rs[Len(rs) + 1 - k]], PAPERS_PER_REVIEWER), 1)

ReviewRows(rs) == ReviewRowsFrom(Chunks(rs, PAPERS_PER_REVIEWER), 1)

\* lines 547-567
PopulateReview ==
    /\ pc = "reviews"
    /\ \/ /\ review' = ReviewRows(reviews)
          /\ Proceed("memstats_populated")
       \/ /\ Abort("review")
          /\ UNCHANGED review
    /\ UNCHANGED <<loggedf, source, dataVars, countVars, user_profile, paper, version,
                   coauthor, review_assignment, snapshots, memVars, loginVars, benchVars>>

(***************************************************************************)
(* The memstats closure: lines 398-434.  A statistics report is modelled   *)
(* as a sequence of node entries, the index being the node's identity;     *)
(* each entry carries the domain under which the report files the node.    *)
(***************************************************************************)
\* the descriptions of a base table, of a reader and of some other operator
Descs == {"B", "reader node", "I"}

MemSizes == {1, 2}

NodeStats == [domain : 1..MaxDomains, desc : Descs, mem_size : MemSizes]

Reports == SeqsUpTo(NodeStats, MaxNodes)

\* a report with one base table, one reader and one other operator
OneOfEach ==
    <<[domain |-> 1, desc |-> "B", mem_size |-> 2],
      [domain |-> 1, desc |-> "I", mem_size |-> 1],
      [domain |-> 2, desc |-> "reader node", mem_size |-> 1]>>

\* variant: the second test is not under the else of the first
AccountNoElse(acc, nstat) ==
    LET a == IF nstat.desc = "B"
             THEN [acc EXCEPT !.base_mem = @ + nstat.mem_size] ELSE acc
    IN  IF nstat.desc = "reader node"
        THEN [a EXCEPT !.reader_mem = @ + nstat.mem_size]
        ELSE [a EXCEPT !.mem = @ + nstat.mem_size]

\* lines 415-421: the body of the inner loop
Account(acc, nstat) ==
    IF nstat.desc = "B" THEN [acc EXCEPT !.base_mem = @ + nstat.mem_size]
    ELSE IF nstat.desc = "reader node" THEN [acc EXCEPT !.reader_mem = @ + nstat.mem_size]
    ELSE [acc EXCEPT !.mem = @ + nstat.mem_size]

\* line 414: for nstat in nstats.values(), over the nodes ks of one domain
RECURSIVE AccountNodes(_, _, _)
AccountNodes(acc, stats, ks) ==
    IF ks = {} THEN acc
    ELSE LET k == CHOOSE x \in ks : TRUE
         IN  AccountNodes(Account(acc, stats[k]), stats, ks \ {k})

\* line 413: for (_, nstats) in stats.values(), over the domains ds
RECURSIVE AccountDomains(_, _, _)
AccountDomains(acc, stats, ds) ==
    IF ds = {} THEN acc
    ELSE LET d == CHOOSE x \in ds : TRUE
             nstats == {k \in DOMAIN stats : stats[k].domain = d}
         IN  AccountDomains(AccountNodes(acc, stats, nstats), stats, ds \ {d})

\* lines 409-422: the three counters start at 0 and are run over the report
MemTotals(stats) ==
    AccountDomains([base_mem |-> 0, reader_mem |-> 0, mem |-> 0], stats,
                   {stats[k].domain : k \in DOMAIN stats})

\* lines 424-429: the record written for the snapshot `at`
MemRecord(at, stats) ==
    LET t == MemTotals(stats)
    IN  <<Fmt(Lfrac), Fmt(nlogged), Fmt(at), Fmt(t.base_mem), Fmt(t.reader_mem), Fmt(t.mem)>>

\* lines 398-434 called at line 570: g.statistics().unwrap(), then one row
\* labelled "populated" is written; the Result of write_record is dropped
MemstatsPopulated ==
    /\ pc = "memstats_populated"
    /\ \/ /\ snapshots' = Append(snapshots, "populated")
          /\ wtr' = Append(wtr, MemRecord("populated", graph_stats))
          /\ Proceed("graphviz")
       \/ /\ Abort("statistics")
          /\ UNCHANGED <<snapshots, wtr>>
    /\ UNCHANGED <<loggedf, source, dataVars, countVars, tableVars, graph_stats, loginVars,
                   benchVars>>

(***************************************************************************)
(* Specification of ingestion and population, from the start of main.      *)
(***************************************************************************)
Init ==
    /\ pc = "ingest"
    /\ failed = {}
    /\ loggedf = [num |-> 1, den |-> 1]
    /\ source = <<>>
    /\ author_set = <<>>
    /\ authors = <<>>
    /\ papers = <<>>
    /\ reviews = <<>>
    /\ nusers = 0
    /\ nreviewers = 0
    /\ nlogged = 0
    /\ user_profile = <<>>
    /\ paper = <<>>
    /\ version = <<>>
    /\ coauthor = <<>>
    /\ review_assignment = <<>>
    /\ review = <<>>
    /\ snapshots = <<>>
    /\ graph_stats = OneOfEach
    /\ wtr = <<>>
    /\ universes = <<>>
    /\ printi = 0
    /\ login_samples = <<>>
    /\ paper_list = <<>>
    /\ gci = 0
    /\ requests = <<>>
    /\ lookups = <<>>
    /\ cold_stats = <<>>
    /\ warm_stats = <<>>

Next ==
    \/ IngestPaper
    \/ EndIngest
    \/ InstallRecipe
    \/ SetSecurityConfig
    \/ ExtendRecipe
    \/ TableHandles
    \/ PopulateUserProfile
    \/ PopulatePaper
    \/ PopulateVersion
    \/ PopulateCoauthor
    \/ ShuffleReviews
    \/ PopulateReviewAssignment
    \/ PopulateReview
    \/ MemstatsPopulated

Spec == Init /\ [][Next]_vars

(***************************************************************************)
(* Debug queries and tenant provisioning: lines 572-635.                   *)
(***************************************************************************)
\* lines 572-579: g.graphviz().unwrap()
Graphviz ==
    /\ pc = "graphviz"
    /\ \/ Proceed("gc_queries")
       \/ Abort("graphviz")
    /\ UNCHANGED <<loggedf, source, dataVars, countVars, tableVars, snapshots, memVars, loginVars, benchVars>>

\* lines 580-584: g.extend_recipe(gc_queries).expect(..)
ExtendRecipeGC ==
    /\ pc = "gc_queries"
    /\ \/ Proceed("gc_view")
       \/ Abort("extend_recipe_gc")
    /\ UNCHANGED <<loggedf, source, dataVars, countVars, tableVars, snapshots, memVars, loginVars, benchVars>>

\* line 586: g.view("GroupContext").unwrap()
ViewGroupContext ==
    /\ pc = "gc_view"
    /\ \/ Proceed("gc_bogo")
       \/ Abort("view")
    /\ UNCHANGED <<loggedf, source, dataVars, countVars, tableVars, snapshots, memVars, loginVars, benchVars>>

\* a GroupContext lookup whose Result is only printed ("GC: {:?}"): an Err is
\* noted in the history and control moves on
LookupPrinted(next) ==
    /\ pc' = next
    /\ \/ failed' = failed
       \/ failed' = failed \cup {"gc_lookup"}

\* lines 587-588: bogokey lookup, result printed
GCLookupBogo ==
    /\ pc = "gc_bogo"
    /\ LookupPrinted("login")
    /\ UNCHANGED <<loggedf, source, dataVars, countVars, tableVars, snapshots, memVars, loginVars, benchVars>>

\* line 593
Stripe == nlogged \div 10

\* lines 605-616: the next index to print, after printing index i
NextPrinti(i) ==
    IF i = 0 THEN printi + 1
    ELSE IF i = 1 THEN Stripe
    ELSE printi + Stripe

\* authors.iter().take(nlogged): the number of iterations of the login loop
LoginCount == Min(nlogged, Len(authors))

\* lines 595-617: one iteration of the login loop, for the author at index i
CreateUniverse ==
    /\ pc = "login"
    /\ Len(universes) < LoginCount
    /\ LET i == Len(universes)
       IN  \/ /\ universes' = Append(universes, i + 1)
              /\ IF i = printi
                 THEN /\ login_samples' = Append(login_samples, i)
                      /\ printi' = NextPrinti(i)
                 ELSE UNCHANGED <<printi, login_samples>>
              /\ Proceed("login")
           \/ /\ Abort("create_universe")
              /\ UNCHANGED loginVars
    /\ UNCHANGED <<loggedf, source, dataVars, countVars, tableVars, snapshots, memVars, benchVars>>

\* line 621, after the login loop: g.graphviz().unwrap()
GraphvizAfterLogin ==
    /\ pc = "login"
    /\ Len(universes) = LoginCount
    /\ \/ Proceed("view_handles")
       \/ Abort("graphviz")
    /\ UNCHANGED <<loggedf, source, dataVars, countVars, tableVars, snapshots, memVars, loginVars, benchVars>>

\* number of view handles collected so far = the next uid of (0..nlogged)
HandleCount == Cardinality(DOMAIN paper_list)

\* lines 625-635: one element of (0..nlogged).map(..): authors[uid] is an
\* index panic past the end of authors; g.view("ReviewList_u{uid+1}").unwrap()
ViewHandle ==
    /\ pc = "view_handles"
    /\ HandleCount < nlogged
    /\ LET uid == HandleCount
       IN  \/ /\ uid < Len(authors)
              /\ paper_list' = paper_list @@ (authors[uid + 1] :> uid + 1)
              /\ Proceed("view_handles")
           \/ /\ uid < Len(authors)
              /\ Abort("view")
              /\ UNCHANGED paper_list
           \/ /\ uid >= Len(authors)
              /\ Abort("panic: authors[uid]")
              /\ UNCHANGED paper_list
    /\ UNCHANGED <<loggedf, source, dataVars, countVars, tableVars, snapshots, memVars, loginVars,
                   gci, requests, lookups, cold_stats, warm_stats>>

(***************************************************************************)
(* Benchmark runner: lines 643-714.                                        *)
(***************************************************************************)
\* line 643, after all view handles: g.view("GroupContext").unwrap()
ViewGroupContext2 ==
    /\ pc = "view_handles"
    /\ HandleCount = nlogged
    /\ \/ Proceed("gc_numeric") /\ gci' = 0
       \/ Abort("view") /\ UNCHANGED gci
    /\ UNCHANGED <<loggedf, source, dataVars, countVars, tableVars, snapshots, memVars, loginVars,
                   paper_list, requests, lookups, cold_stats, warm_stats>>

\* lines 645-648: for i in 0..7, lookup printed
GCLookupNumeric ==
    /\ pc = "gc_numeric"
    /\ IF gci + 1 < 7
       THEN LookupPrinted("gc_numeric") /\ gci' = gci + 1
       ELSE LookupPrinted("gc_string") /\ gci' = 1
    /\ UNCHANGED <<loggedf, source, dataVars, countVars, tableVars, snapshots, memVars, loginVars,
                   paper_list, requests, lookups, cold_stats, warm_stats>>

\* lines 650-653: for i in 1..7, lookup printed
GCLookupString ==
    /\ pc = "gc_string"
    /\ IF gci + 1 < 7
       THEN LookupPrinted("gc_string") /\ gci' = gci + 1
       ELSE LookupPrinted("cold") /\ gci' = gci
    /\ UNCHANGED <<loggedf, source, dataVars, countVars, tableVars, snapshots, memVars, loginVars,
                   paper_list, requests, lookups, cold_stats, warm_stats>>

\* tenants already drawn from the cold-phase iterator
Drawn == {requests[k][2] : k \in 1..Len(requests)}

\* variant: elements are drawn with replacement
ColdCandidatesWithReplacement == {authors[k] : k \in 1..nlogged}

\* authors[0..nlogged].choose_multiple(&mut rng, nlogged): nlogged distinct
\* elements of the slice in any order; the ones not drawn yet
ColdCandidates == {authors[k] : k \in 1..nlogged} \ Drawn

\* lines 659-681: one iteration of the cold loop.  The request is pushed
\* before the lookup, the sample is recorded after it succeeded.
ColdRead ==
    /\ pc = "cold"
    /\ Len(requests) < nlogged
    /\ \E uid \in ColdCandidates :
         /\ requests' = Append(requests, <<ReadPaperList, uid>>)
         /\ lookups' = Append(lookups,
                [phase |-> "cold", op |-> ReadPaperList, tenant |-> uid,
                 view |-> paper_list[uid]])
         /\ \/ /\ cold_stats' = RecordSample(cold_stats, ReadPaperList)
               /\ Proceed("cold")
            \/ /\ Abort("lookup")
               /\ UNCHANGED cold_stats
    /\ UNCHANGED <<loggedf, source, dataVars, countVars, tableVars, snapshots, memVars, loginVars,
                   paper_list, gci, warm_stats>>

\* variant: the warm loop starts while cold reads are still outstanding
StartWarmEarly ==
    /\ pc = "cold"
    /\ Proceed("warm")
    /\ UNCHANGED <<loggedf, source, dataVars, countVars, tableVars, snapshots, memVars, loginVars,
                   benchVars>>

\* line 683: the cold iterator is exhausted
StartWarm ==
    /\ pc = "cold"
    /\ Len(requests) = nlogged
    /\ Proceed("warm")
    /\ UNCHANGED <<loggedf, source, dataVars, countVars, tableVars, snapshots, memVars, loginVars, benchVars>>

\* the warm lookups issued so far
WarmLookups == SelectSeq(lookups, LAMBDA l : l.phase = "warm")

\* variant: the replay list is consumed from its end
NextWarmRequestFromEnd == requests[Len(requests) - Len(WarmLookups)]

\* line 684: the next element of `requests` in iteration order
NextWarmRequest == requests[Len(WarmLookups) + 1]

\* lines 684-710: one iteration of `for (op, uid) in requests`
WarmRead ==
    /\ pc = "warm"
    /\ Len(WarmLookups) < Len(requests)
    /\ LET req == NextWarmRequest
           op  == req[1]
           uid == req[2]
       IN  /\ lookups' = Append(lookups,
                  [phase |-> "warm", op |-> op, tenant |-> uid, view |-> paper_list[uid]])
           /\ \/ /\ warm_stats' = RecordSample(warm_stats, op)
                 /\ Proceed("warm")
              \/ /\ Abort("lookup")
                 /\ UNCHANGED warm_stats
    /\ UNCHANGED <<loggedf, source, dataVars, countVars, tableVars, snapshots, memVars, loginVars,
                   paper_list, gci, requests, cold_stats>>

\* line 714, after the warm loop: memstats(&mut g, "end")
MemstatsEnd ==
    /\ pc = "warm"
    /\ Len(WarmLookups) = Len(requests)
    /\ \/ /\ snapshots' = Append(snapshots, "end")
          /\ wtr' = Append(wtr, MemRecord("end", graph_stats))
          /\ Proceed("report")
       \/ /\ Abort("statistics")
          /\ UNCHANGED <<snapshots, wtr>>
    /\ UNCHANGED <<loggedf, source, dataVars, countVars, tableVars, graph_stats, loginVars,
                   benchVars>>

\* lines 717-742: the percentile report is printed
Report ==
    /\ pc = "report"
    /\ Proceed("done")
    /\ UNCHANGED <<loggedf, source, dataVars, countVars, tableVars, snapshots, memVars, loginVars, benchVars>>

(***************************************************************************)
(* Specification of the run after ingestion.  The state at line 331 for a  *)
(* source with nu authors and nr reviews: one paper written by all the     *)
(* authors, carrying all the reviews.                                      *)
(***************************************************************************)
AfterIngest(nu, nr, lf) ==
    /\ pc = "install_recipe"
    /\ failed = {}
    /\ loggedf = lf
    /\ source = IF nu = 0 /\ nr = 0 THEN <<>>
                ELSE <<[authorids |-> [k \in 1..nu |-> k],
                        reviews |-> [k \in 1..nr |-> [rating |-> 6, confidence |-> 4]]]>>
    /\ author_set = <<>>
    /\ authors = [k \in 1..nu |-> k]
    /\ papers = IF nu = 0 /\ nr = 0 THEN <<>> ELSE <<[authors |-> [k \in 1..nu |-> k - 1]]>>
    /\ reviews = [k \in 1..nr |-> [paper |-> 1, rating |-> 6, confidence |-> 4]]
    /\ nusers = nu
    /\ nreviewers = NReviewers(nr)
    /\ nlogged = NLogged(Lfrac, NReviewers(nr))
    /\ user_profile = <<>>
    /\ paper = <<>>
    /\ version = <<>>
    /\ coauthor = <<>>
    /\ review_assignment = <<>>
    /\ review = <<>>
    /\ snapshots = <<>>
    /\ graph_stats = OneOfEach
    /\ wtr = <<>>
    /\ universes = <<>>
    /\ printi = 0
    /\ login_samples = <<>>
    /\ paper_list = <<>>
    /\ gci = 0
    /\ requests = <<>>
    /\ lookups = <<>>
    /\ cold_stats = <<>>
    /\ warm_stats = <<>>

InitRun ==
    \E nu \in 0..MaxUsers, nr \in 0..MaxReviews, lf \in LoggedFs : AfterIngest(nu, nr, lf)

NextRun ==
    \/ InstallRecipe
    \/ SetSecurityConfig
    \/ ExtendRecipe
    \/ TableHandles
    \/ PopulateUserProfile
    \/ PopulatePaper
    \/ PopulateVersion
    \/ PopulateCoauthor
    \/ ShuffleReviews
    \/ PopulateReviewAssignment
    \/ PopulateReview
    \/ MemstatsPopulated
    \/ Graphviz
    \/ ExtendRecipeGC
    \/ ViewGroupContext
    \/ GCLookupBogo
    \/ CreateUniverse
    \/ GraphvizAfterLogin
    \/ ViewHandle
    \/ ViewGroupContext2
    \/ GCLookupNumeric
    \/ GCLookupString
    \/ ColdRead
    \/ StartWarm
    \/ WarmRead
    \/ MemstatsEnd
    \/ Report

SpecRun == InitRun /\ [][NextRun]_vars

(***************************************************************************)
(* Specification of the login loop: the states at line 591 of a run in     *)
(* which every earlier call succeeded, for nu >= 1 authors and nr reviews. *)
(***************************************************************************)
AtLogin(nu, nr) ==
    /\ pc = "login"
    /\ failed = {}
    /\ loggedf = [num |-> 1, den |-> 1]
    /\ source = <<[authorids |-> [k \in 1..nu |-> k],
                   reviews |-> [k \in 1..nr |-> [rating |-> 6, confidence |-> 4]]]>>
    /\ author_set = <<>>
    /\ authors = [k \in 1..nu |-> k]
    /\ papers = <<[authors |-> [k \in 1..nu |-> k - 1]]>>
    /\ reviews = [k \in 1..nr |-> [paper |-> 1, rating |-> 6, confidence |-> 4]]
    /\ nusers = nu
    /\ nreviewers = NReviewers(nr)
    /\ nlogged = NLogged(Lfrac, NReviewers(nr))
    /\ user_profile = UserProfileRows(authors, nreviewers)
    /\ paper = PaperRows(papers)
    /\ version = VersionRows(papers)
    /\ coauthor = CoauthorRows(papers)
    /\ review_assignment = AssignmentRows(reviews)
    /\ review = ReviewRows(reviews)
    /\ snapshots = <<"populated">>
    /\ graph_stats = OneOfEach
    /\ wtr = <<MemRecord("populated", OneOfEach)>>
    /\ universes = <<>>
    /\ printi = 0
    /\ login_samples = <<>>
    /\ paper_list = <<>>
    /\ gci = 0
    /\ requests = <<>>
    /\ lookups = <<>>
    /\ cold_stats = <<>>
    /\ warm_stats = <<>>

InitLogin ==
    \E nu \in 1..MaxLoginUsers, g \in 0..MaxLoginReviewers :
        AtLogin(nu, PAPERS_PER_REVIEWER * g)

NextLogin ==
    \/ CreateUniverse
    \/ GraphvizAfterLogin

SpecLogin == InitLogin /\ [][NextLogin]_vars

\* SpecRun enters the login loop in the states SpecLogin starts from (InitLogin
\* fixes the command line to its default, takes whole reviewer groups and
\* leaves out the printed lookup error, none of which the loop reads)
LoginEntryShape ==
    (pc = "login" /\ universes = <<>> /\ nusers >= 1)
        => /\ failed \subseteq {"gc_lookup"}
           /\ Len(source) = 1
           /\ authors = [k \in 1..nusers |-> k]
           /\ papers = <<[authors |-> [k \in 1..nusers |-> k - 1]]>>
           /\ nreviewers = NReviewers(Len(reviews))
           /\ nlogged = NLogged(Lfrac, nreviewers)
           /\ user_profile = UserProfileRows(authors, nreviewers)
           /\ paper = PaperRows(papers)
           /\ version = VersionRows(papers)
           /\ coauthor = CoauthorRows(papers)
           /\ review_assignment = AssignmentRows(reviews)
           /\ review = ReviewRows(reviews)
           /\ snapshots = <<"populated">>
           /\ graph_stats = OneOfEach
           /\ wtr = <<MemRecord("populated", OneOfEach)>>
           /\ printi = 0 /\ login_samples = <<>> /\ paper_list = <<>> /\ gci = 0
           /\ requests = <<>> /\ lookups = <<>> /\ cold_stats = <<>> /\ warm_stats = <<>>

(***************************************************************************)
(* Specification of the memory snapshots: the states at line 570 (at =     *)
(* "populated") and at line 714 (at = "end") of a run in which every       *)
(* earlier call succeeded and nobody is logged in, for nu >= 1 authors, nr *)
(* reviews and a controller that reports the statistics `stats`.           *)
(***************************************************************************)
AtMemstats(nu, nr, at, stats) ==
    /\ pc = IF at = "populated" THEN "memstats_populated" ELSE "warm"
    /\ failed = {}
    /\ loggedf = [num |-> 1, den |-> 1]
    /\ source = <<[authorids |-> [k \in 1..nu |-> k],
                   reviews |-> [k \in 1..nr |-> [rating |-> 6, confidence |-> 4]]]>>
    /\ author_set = <<>>
    /\ authors = [k \in 1..nu |-> k]
    /\ papers = <<[authors |-> [k \in 1..nu |-> k - 1]]>>
    /\ reviews = [k \in 1..nr |-> [paper |-> 1, rating |-> 6, confidence |-> 4]]
    /\ nusers = nu
    /\ nreviewers = NReviewers(nr)
    /\ nlogged = NLogged(Lfrac, NReviewers(nr))
    /\ nlogged = 0
    /\ user_profile = UserProfileRows(authors, nreviewers)
    /\ paper = PaperRows(papers)
    /\ version = VersionRows(papers)
    /\ coauthor = CoauthorRows(papers)
    /\ review_assignment = AssignmentRows(reviews)
    /\ review = ReviewRows(reviews)
    /\ snapshots = IF at = "populated" THEN <<>> ELSE <<"populated">>
    /\ graph_stats = stats
    /\ wtr = IF at = "populated" THEN <<>> ELSE <<MemRecord("populated", stats)>>
    /\ universes = <<>>
    /\ printi = 0
    /\ login_samples = <<>>
    /\ paper_list = <<>>
    /\ gci = IF at = "populated" THEN 0 ELSE 6
    /\ requests = <<>>
    /\ lookups = <<>>
    /\ cold_stats = <<>>
    /\ warm_stats = <<>>

InitMem ==
    \E nr \in {0, PAPERS_PER_REVIEWER}, at \in {"populated", "end"}, stats \in Reports :
        AtMemstats(1, nr, at, stats)

NextMem ==
    \/ MemstatsPopulated
    \/ MemstatsEnd

SpecMem == InitMem /\ [][NextMem]_vars

\* SpecRun enters the two snapshots in the states SpecMem starts from, with
\* the report OneOfEach (InitMem fixes the command line to its default and
\* leaves out the printed lookup errors, none of which memstats reads)
MemstatsEntryShape ==
    (nusers >= 1 /\ nlogged = 0 /\ pc \in {"memstats_populated", "warm"})
        => /\ failed \subseteq {"gc_lookup"}
           /\ Len(source) = 1
           /\ authors = [k \in 1..nusers |-> k]
           /\ papers = <<[authors |-> [k \in 1..nusers |-> k - 1]]>>
           /\ nreviewers = NReviewers(Len(reviews))
           /\ user_profile = UserProfileRows(authors, nreviewers)
           /\ paper = PaperRows(papers)
           /\ version = VersionRows(papers)
           /\ coauthor = CoauthorRows(papers)
           /\ review_assignment = AssignmentRows(reviews)
           /\ review = ReviewRows(reviews)
           /\ snapshots = IF pc = "warm" THEN <<"populated">> ELSE <<>>
           /\ wtr = IF pc = "warm" THEN <<MemRecord("populated", graph_stats)>> ELSE <<>>
           /\ gci = IF pc = "warm" THEN 6 ELSE 0
           /\ universes = <<>> /\ printi = 0 /\ login_samples = <<>> /\ paper_list = <<>>
           /\ requests = <<>> /\ lookups = <<>> /\ cold_stats = <<>> /\ warm_stats = <<>>

(***************************************************************************)
(* Properties.                                                             *)
(***************************************************************************)
CeilDiv(n, k) == IF n % k = 0 THEN n \div k ELSE (n \div k) + 1

RECURSIVE Flatten(_)
Flatten(ss) == IF ss = <<>> THEN <<>> ELSE Head(ss) \o Flatten(Tail(ss))

\* the first occurrences of the elements of s, in order
RECURSIVE FirstSeen(_)
FirstSeen(s) ==
    IF s = <<>> THEN <<>>
    ELSE LET init == FirstSeen(SubSeq(s, 1, Len(s) - 1))
         IN  IF s[Len(s)] \in Range(init) THEN init ELSE Append(init, s[Len(s)])

\* all author identifiers consumed so far, in source order
Seen == Flatten([k \in 1..Len(source) |-> source[k].authorids])

\* the ids the papers recorded for them, in the same order
PaperIds == Flatten([k \in 1..Len(papers) |-> papers[k].authors])

\* all reviews consumed so far, in source order
Ingested ==
    Flatten([k \in 1..Len(source) |->
        [j \in 1..Len(source[k].reviews) |->
            [paper |-> k, rating |-> source[k].reviews[j].rating,
             confidence |-> source[k].reviews[j].confidence]]])

\* C10: after ingesting any sequence of author identifiers the dedup map is
\* injective and dense: the author list holds each identifier once, in order
\* of first encounter; the ids in use are exactly 0..n-1; every occurrence of
\* an identifier, first or repeated, received the id the map holds for it; and
\* a repeated identifier added no entry to the author list.
C10_DedupInjectiveDense ==
    /\ authors = FirstSeen(Seen)
    /\ Len(PaperIds) = Len(Seen)
    /\ \A k \in 1..Len(Seen) :
          PaperIds[k] \in 0..(Len(authors) - 1) /\ authors[PaperIds[k] + 1] = Seen[k]
    /\ pc = "ingest" =>
          /\ DOMAIN author_set = Range(Seen)
          /\ \A a, b \in DOMAIN author_set : a # b => author_set[a] # author_set[b]
          /\ {author_set[a] : a \in DOMAIN author_set} = 0..(Cardinality(Range(Seen)) - 1)
          /\ \A a \in DOMAIN author_set : authors[author_set[a] + 1] = a

\* an identifier met again in a later paper, after two others were interned
C10_Witness ==
    /\ pc = "ingest"
    /\ Len(papers) = 2
    /\ Seen = <<2, 1, 1, 3>>
    /\ papers[2].authors = <<1, 2>>

\* positions of main before the ReviewAssignment rows are loaded, and the
\* failures that stop the run before that
BeforeAssignments ==
    {"ingest", "install_recipe", "security", "queries", "tables", "users", "papers",
     "versions", "coauthors", "shuffle", "assignments"}

EarlyFailures ==
    {"install_recipe", "set_security_config", "extend_recipe", "table", "user_profile",
     "panic: p.authors[0]", "paper", "version", "coauthor", "review_assignment"}

AssignmentsLoaded == pc \notin BeforeAssignments /\ failed \cap EarlyFailures = {}

AssignedReview(row) ==
    [paper |-> row.paper, rating |-> row.score[1], confidence |-> row.score[2]]

GroupIds == {review_assignment[k].reviewer : k \in 1..Len(review_assignment)}

GroupSize(g) ==
    Cardinality({k \in 1..Len(review_assignment) : review_assignment[k].reviewer = g})

\* C5: for every review list the ReviewAssignment rows partition the reviews:
\* the reviewer identities used are exactly 1..ceil(n/3), every ingested review
\* is in exactly one row (as a multiset, whatever the shuffle), and every group
\* but the last holds exactly 3 reviews, the last between 1 and 3.
C5_AssignmentPartition ==
    AssignmentsLoaded =>
        LET n == Len(Ingested)
            G == CeilDiv(n, 3)
        IN  /\ GroupIds = {Fmt(g) : g \in 1..G}
            /\ Cardinality(GroupIds) = G
            /\ nreviewers = G
            /\ SameBag([k \in 1..Len(review_assignment) |->
                            AssignedReview(review_assignment[k])], Ingested)
            /\ \A g \in 1..(G - 1) : GroupSize(Fmt(g)) = 3
            /\ G >= 1 => GroupSize(Fmt(G)) \in 1..3

\* four reviews of two papers, loaded in an order other than the source order:
\* one full group and a last group of one
C5_Witness ==
    /\ AssignmentsLoaded
    /\ Len(review_assignment) = 4
    /\ reviews # Ingested
    /\ review_assignment[3].paper # review_assignment[4].paper
    /\ GroupSize(Fmt(1)) = 3
    /\ GroupSize(Fmt(2)) = 1

\* the cold lookups issued so far
ColdLookups == SelectSeq(lookups, LAMBDA l : l.phase = "cold")

Pairs(ls) == [k \in 1..Len(ls) |-> <<ls[k].op, ls[k].tenant>>]

WarmFinished ==
    \/ pc \in {"report", "done"}
    \/ pc = "warm" /\ Len(WarmLookups) = Len(requests)

\* C1: once the warm phase has finished, the (operation, tenant) requests it
\* issued are exactly those of the cold phase, in the same order, and for every
\* operation kind the warm histogram holds as many samples as the cold one.
C1_WarmReplaysCold ==
    WarmFinished =>
        /\ Pairs(WarmLookups) = Pairs(ColdLookups)
        /\ \A op \in {ReadPaperList} :
              /\ SampleCount(warm_stats, op) = SampleCount(cold_stats, op)
              /\ SampleCount(cold_stats, op) =
                    Cardinality({k \in 1..Len(ColdLookups) : ColdLookups[k].op = op})

\* a finished run of three tenants read in an order that is not its own reverse
C1_Witness ==
    /\ pc = "done"
    /\ Len(WarmLookups) = 3
    /\ WarmLookups[1].tenant = authors[2]
    /\ WarmLookups[2].tenant = authors[3]
    /\ warm_stats[ReadPaperList] = 3

ColdFinished == pc \in {"warm", "report", "done"}

\* C2: the cold reads go to distinct tenants among the first N authors, each to
\* the view ReviewList_u{j} of the tenant whose context was created with id j;
\* while the run is in progress every read has added one entry to the replay
\* list and one sample to the cold histogram; when the cold phase has finished
\* every one of the first N authors has been read exactly once.
C2_ColdPermutation ==
    /\ \A i, j \in 1..Len(ColdLookups) :
          i # j => ColdLookups[i].tenant # ColdLookups[j].tenant
    /\ \A k \in 1..Len(ColdLookups) :
          \E j \in 1..nlogged :
             /\ authors[j] = ColdLookups[k].tenant
             /\ ColdLookups[k].view = j
             /\ j <= Len(universes)
             /\ universes[j] = j
    /\ pc \in {"cold", "warm", "report", "done"} =>
          /\ Pairs(ColdLookups) = requests
          /\ SampleCount(cold_stats, ReadPaperList) = Len(ColdLookups)
    /\ ColdFinished =>
          /\ Len(ColdLookups) = nlogged
          /\ {ColdLookups[k].tenant : k \in 1..Len(ColdLookups)} =
                {authors[j] : j \in 1..nlogged}

\* three tenants read in an order other than the author order
C2_Witness ==
    /\ pc = "warm"
    /\ nlogged = 3
    /\ Pairs(ColdLookups) =
          <<<<ReadPaperList, authors[3]>>, <<ReadPaperList, authors[1]>>,
            <<ReadPaperList, authors[2]>>>>
    /\ cold_stats[ReadPaperList] = 3

LoginFinished ==
    pc \in {"view_handles", "gc_numeric", "gc_string", "cold", "warm", "report", "done"}

\* C3 (as claimed): the contexts provisioned are those of the first
\* floor(logged-in fraction x number of authors) authors, keyed 1, 2, ...
C3_ContextsFromLoginFraction ==
    LoginFinished => universes = [k \in 1..FloorMul(loggedf, Len(authors)) |-> k]

RoleRows(r) == {k \in 1..Len(user_profile) : user_profile[k].role = r}

\* C4 (as claimed): for any nonzero author count and any number of reviews,
\* exactly one chair (author index 0), exactly reviewer_count - 1 program
\* committee rows (the next author indices), the rest normal.
C4_RolePartition ==
    user_profile # <<>> =>
        LET rc == CeilDiv(Len(reviews), 3)
        IN  /\ Len(user_profile) = Len(authors)
            /\ RoleRows("chair") = {1}
            /\ RoleRows("pc") = 2..rc
            /\ Cardinality(RoleRows("pc")) = rc - 1
            /\ RoleRows("normal") = (1..Len(authors)) \ (1..rc)

\* C4 (amended): for any nonzero author count and any number of reviews,
\* exactly one chair (author index 0); the program committee rows are the next
\* author indices below min(reviewer_count, author count), none when there are
\* no reviews; every remaining row is normal.  For 4 authors and 6 reviews the
\* roles are chair, pc, normal, normal.
C4_RolePartitionAmended ==
    user_profile # <<>> =>
        LET rc == CeilDiv(Len(reviews), 3)
            m  == Min(rc, Len(authors))
        IN  /\ Len(user_profile) = Len(authors)
            /\ \A k \in 1..Len(authors) :
                  user_profile[k].id = Fmt(k) /\ user_profile[k].email = authors[k]
            /\ RoleRows("chair") = {1}
            /\ RoleRows("pc") = 2..m
            /\ Cardinality(RoleRows("pc")) = IF m = 0 THEN 0 ELSE m - 1
            /\ RoleRows("normal") = (1..Len(authors)) \ (RoleRows("chair") \cup RoleRows("pc"))
            /\ (Len(authors) = 4 /\ Len(reviews) = 6) =>
                  [k \in 1..4 |-> user_profile[k].role] = <<"chair", "pc", "normal", "normal">>

\* the scenario of 4 authors and 6 reviews, loaded
C4_Witness ==
    /\ Len(authors) = 4
    /\ Len(reviews) = 6
    /\ Len(user_profile) = 4
    /\ user_profile[2].role = "pc"
    /\ user_profile[3].role = "normal"

\* the indices the sampling policy names for N contexts
ClaimedSamples(N) ==
    {i \in 0..(N - 1) : i \in {0, 1} \/ \E m \in 1..N : i = m * (N \div 10)}

\* C6 (as claimed): when all N contexts have been provisioned, the indices
\* whose login latency was reported are 0, 1 and the multiples of
\* floor(N/10) below N.
C6_LoginSamples ==
    (pc = "view_handles" /\ Len(universes) = nlogged) =>
        Range(login_samples) = ClaimedSamples(nlogged)

\* C7 (as claimed): every failed platform call, a failed lookup on any view
\* included, aborts the run.
C7_EveryFailureAborts == failed # {} => pc = "aborted"

\* failures of the calls whose result main unwraps
FatalFailures == failed \ {"gc_lookup"}

\* C7 (amended): a failure of any platform call other than a lookup on the
\* GroupContext debug view aborts the run at that call: the run is then in its
\* aborted state, exactly one such failure has happened (nothing was retried or
\* attempted after it), and no step is taken from the aborted state.  A failed
\* GroupContext lookup is printed and the run continues.
C7_UnwrappedFailureAborts ==
    /\ [](FatalFailures # {} => (pc = "aborted" /\ Cardinality(FatalFailures) = 1))
    /\ [](pc = "aborted" => FatalFailures # {})
    /\ [][pc # "aborted"]_vars

\* a GroupContext lookup failed, the run went on, and a later failed read of
\* a tenant's view stopped it
C7_Witness ==
    /\ pc = "aborted"
    /\ failed = {"gc_lookup", "lookup"}
    /\ Len(requests) = 2
    /\ SampleCount(cold_stats, ReadPaperList) = 1

\* C8 (as claimed): contexts are created in author order, no view handle is
\* obtained and no read issued before all N contexts exist, and no read is
\* issued after a failed context creation.
C8_ContextsBeforeHandles ==
    /\ universes = [k \in 1..Len(universes) |-> k]
    /\ (paper_list # <<>> \/ lookups # <<>>) => Len(universes) = nlogged
    /\ "create_universe" \in failed => lookups = <<>>

PhaseRank ==
    CASE pc = "cold" -> 1
      [] pc = "warm" -> 2
      [] pc \in {"report", "done"} -> 3
      [] pc = "aborted" -> 4
      [] OTHER -> 0

PhaseInv ==
    /\ PhaseRank = 0 => lookups = <<>>
    /\ PhaseRank = 1 => WarmLookups = <<>>
    /\ WarmLookups # <<>> =>
          /\ Len(ColdLookups) = nlogged
          /\ SampleCount(cold_stats, ReadPaperList) = nlogged
    /\ \A i, j \in 1..Len(lookups) :
          (i < j /\ lookups[i].phase = "warm") => lookups[j].phase = "warm"
    /\ "end" \in Range(snapshots) =>
          /\ Len(WarmLookups) = nlogged
          /\ SampleCount(warm_stats, ReadPaperList) = nlogged
    /\ pc = "done" => snapshots = <<"populated", "end">>

\* C9: the run moves through not-started, cold, warm, done in that order and
\* never backwards; no warm read is issued before the last cold read has been
\* recorded, no cold read after a warm read, and the final snapshot and the
\* report come only after the last warm read.
C9_PhaseOrder ==
    /\ []PhaseInv
    /\ [][PhaseRank' >= PhaseRank]_vars

\* a finished run with three tenants
C9_Witness ==
    /\ pc = "done"
    /\ nlogged = 3
    /\ Len(lookups) = 6
    /\ lookups[3].phase = "cold"
    /\ lookups[4].phase = "warm"

\* positions of main up to the loading of the PaperCoauthor rows, and the
\* failures that stop the run before they are loaded
BeforeCoauthors ==
    {"ingest", "install_recipe", "security", "queries", "tables", "users", "papers",
     "versions", "coauthors"}

CoauthorFailures ==
    {"install_recipe", "set_security_config", "extend_recipe", "table", "user_profile",
     "panic: p.authors[0]", "paper", "version", "coauthor"}

CoauthorsLoaded == pc \notin BeforeCoauthors /\ failed \cap CoauthorFailures = {}

\* C11 (as claimed): the PaperCoauthor rows hold exactly one row per (paper,
\* author) pair: every author of every paper has a row, there is no other row,
\* and no pair is in more than one row, also when a source record lists an
\* identifier more than once.
C11_OneRowPerCoauthor ==
    CoauthorsLoaded =>
        /\ \A p \in 1..Len(papers) : \A j \in 1..Len(papers[p].authors) :
              \E k \in 1..Len(coauthor) :
                 coauthor[k] = [paper |-> p, author |-> Fmt(papers[p].authors[j] + 1)]
        /\ \A k \in 1..Len(coauthor) :
              /\ coauthor[k].paper \in 1..Len(papers)
              /\ \E j \in 1..Len(papers[coauthor[k].paper].authors) :
                    coauthor[k].author = Fmt(papers[coauthor[k].paper].authors[j] + 1)
        /\ \A i, k \in 1..Len(coauthor) : i # k => coauthor[i] # coauthor[k]

ReviewsLoaded ==
    /\ AssignmentsLoaded
    /\ pc # "reviews"
    /\ "review" \notin failed

ReviewerPairs(rows) == [k \in 1..Len(rows) |-> <<rows[k].paper, rows[k].reviewer>>]

\* C13: the Review rows and the ReviewAssignment rows of one run describe the
\* same assignment: both follow the one shuffled order of the reviews, so each
\* review has the same paper, scores and reviewer identity in both tables, and
\* the (paper, reviewer) pairs of the two tables are equal as multisets.
C13_ReviewsMatchAssignments ==
    ReviewsLoaded =>
        /\ Len(review) = Len(review_assignment)
        /\ Len(review) = Len(reviews)
        /\ \A k \in 1..Len(review) :
              /\ AssignedReview(review_assignment[k]) = reviews[k]
              /\ [paper |-> review[k].paper, rating |-> review[k].rating,
                  confidence |-> review[k].confidence] = reviews[k]
              /\ review[k].reviewer = review_assignment[k].reviewer
        /\ SameBag(ReviewerPairs(review), ReviewerPairs(review_assignment))

\* four reviews in a shuffled order, the first and the last of different
\* papers and of different reviewers, loaded into both tables
C13_Witness ==
    /\ ReviewsLoaded
    /\ Len(review) = 4
    /\ reviews # Ingested
    /\ review[1].paper # review[4].paper
    /\ review[1].reviewer = Fmt(1)
    /\ review[4].reviewer = Fmt(2)

ReviewerIsCommittee(r) ==
    \E k \in 1..Len(user_profile) :
        user_profile[k].id = r /\ user_profile[k].role \in {"chair", "pc"}

\* C14 (as claimed): every reviewer identity written to a ReviewAssignment or
\* Review row, and every identity 1..reviewer_count, is the id of a loaded
\* UserProfile row whose role is chair or program committee.
C14_ReviewersAreCommittee ==
    /\ AssignmentsLoaded =>
          /\ \A k \in 1..Len(review_assignment) :
                ReviewerIsCommittee(review_assignment[k].reviewer)
          /\ \A g \in 1..nreviewers : ReviewerIsCommittee(Fmt(g))
    /\ ReviewsLoaded =>
          \A k \in 1..Len(review) : ReviewerIsCommittee(review[k].reviewer)

HandlesFinished == pc \in {"gc_numeric", "gc_string", "cold", "warm", "report", "done"}

\* C15 (as claimed): the logged-in count used for provisioning, view handles
\* and the cold phase never exceeds the number of authors: the contexts
\* created, the view handles obtained and the cold reads issued all number N,
\* and no run aborts on an author index out of range.
C15_LoggedInWithinAuthors ==
    /\ (pc = "login" \/ LoginFinished) => nlogged <= Len(authors)
    /\ LoginFinished => Len(universes) = nlogged
    /\ HandlesFinished => HandleCount = nlogged
    /\ ColdFinished => Len(ColdLookups) = nlogged
    /\ "panic: authors[uid]" \notin failed

\* the sum of mem_size over the nodes ks of a report, each node once
RECURSIVE SumMemSize(_, _)
SumMemSize(stats, ks) ==
    IF ks = {} THEN 0
    ELSE LET k == CHOOSE x \in ks : TRUE
         IN  stats[k].mem_size + SumMemSize(stats, ks \ {k})

NodesWhere(stats, descs) == {k \in DOMAIN stats : stats[k].desc \in descs}

\* C12: every memory snapshot record files each node of the statistics report
\* under exactly one of base, reader and other: base_mem is the total of the
\* nodes described "B", reader_mem of those described "reader node", mem of all
\* the others, and the three add up to the total of mem_size over all nodes.
C12_SnapshotPartition ==
    \A k \in 1..Len(wtr) :
        LET base_mem   == wtr[k][4][2]
            reader_mem == wtr[k][5][2]
            mem        == wtr[k][6][2]
        IN  /\ wtr[k][3] = Fmt(snapshots[k])
            /\ base_mem = SumMemSize(graph_stats, NodesWhere(graph_stats, {"B"}))
            /\ reader_mem = SumMemSize(graph_stats, NodesWhere(graph_stats, {"reader node"}))
            /\ mem = SumMemSize(graph_stats, NodesWhere(graph_stats, Descs \ {"B", "reader node"}))
            /\ base_mem + reader_mem + mem = SumMemSize(graph_stats, DOMAIN graph_stats)

\* both snapshots written for a report of three nodes in two domains, one of
\* each kind
C12_Witness ==
    /\ Len(wtr) = 2
    /\ snapshots = <<"populated", "end">>
    /\ Len(graph_stats) = 3
    /\ {graph_stats[k].desc : k \in DOMAIN graph_stats} = Descs
    /\ {graph_stats[k].domain : k \in DOMAIN graph_stats} = {1, 2}
    /\ graph_stats[1].domain = graph_stats[2].domain
    /\ wtr[2][4] # wtr[2][5]
====
